---- MODULE Spec2Model ----
(***************************************************************************)
(* A model of dmrgo, a Go library for map/reduce jobs: the wire codec      *)
(* (readLineValue, readLineKeyValue, printEmitter), the partitioned        *)
(* emitter, the phase runners (mapper, reducer), the mode dispatcher       *)
(* (Main), the standalone orchestrator (mapreduce) and the word-count      *)
(* example job.                                                            *)
(*                                                                         *)
(* Go strings are sequences of bytes; a byte is its integer value.         *)
(***************************************************************************)
EXTENDS Integers, Sequences, FiniteSets, TLC

\* ------------------------------------------------------------------------
\* Bytes
\* ------------------------------------------------------------------------

TAB == 9
NL == 10
Space == 32
Digit0 == 48
UpperA == 65
UpperZ == 90
LowerA == 97
LowerZ == 122

\* The letters the model's inputs are written with.
ByteA == LowerA
ByteB == LowerA + 1
ByteX == LowerZ - 2
ByteY == LowerZ - 1

EmptyString == << >>

\* ------------------------------------------------------------------------
\* String helpers (the Go library calls the code makes)
\* ------------------------------------------------------------------------

\* The index of the first occurrence of byte c in s, 0 when there is none.
RECURSIVE IndexFrom(_, _, _)
IndexFrom(s, c, i) ==
    IF i > Len(s) THEN 0
    ELSE IF s[i] = c THEN i
    ELSE IndexFrom(s, c, i + 1)

IndexByte(s, c) == IndexFrom(s, c, 1)

Contains(s, c) == IndexByte(s, c) # 0

\* bufio.Reader.ReadString(delim) on a reader whose unread bytes are br:
\* the bytes up to and including the first delim; at end of input without
\* a delim, everything that was left and an error.
ReadString(br, delim) ==
    LET i == IndexByte(br, delim) IN
    IF i = 0
    THEN [s |-> br, err |-> TRUE, rest |-> EmptyString]
    ELSE [s |-> SubSeq(br, 1, i), err |-> FALSE, rest |-> SubSeq(br, i + 1, Len(br))]

\* strings.TrimRight(s, cutset) for a one-byte cutset: every trailing c goes.
RECURSIVE TrimRight(_, _)
TrimRight(s, c) ==
    IF Len(s) > 0 /\ s[Len(s)] = c
    THEN TrimRight(SubSeq(s, 1, Len(s) - 1), c)
    ELSE s

\* The concatenation of a sequence of strings.
RECURSIVE Flatten(_)
Flatten(ss) ==
    IF ss = << >> THEN << >>
    ELSE Head(ss) \o Flatten(Tail(ss))

\* All sequences over S of length at most n.
SeqsUpTo(S, n) == UNION {[1..k -> S] : k \in 0..n}

\* ------------------------------------------------------------------------
\* Wire codec
\* ------------------------------------------------------------------------

KeyValue(k, v) == [Key |-> k, Value |-> v]

\* readLineValue: one value-only line. The result of a failed read is nil.
readLineValue(br) ==
    LET r == ReadString(br, NL) IN
    IF r.err
    THEN [kv |-> KeyValue(EmptyString, EmptyString), err |-> TRUE, rest |-> r.rest]
    ELSE [kv |-> KeyValue(EmptyString, TrimRight(r.s, NL)), err |-> FALSE, rest |-> r.rest]

\* readLineKeyValue: the bytes up to the first TAB are the key, the bytes
\* after it up to the first NEWLINE the value.
readLineKeyValue(br) ==
    LET k == ReadString(br, TAB) IN
    IF k.err
    THEN [kv |-> KeyValue(EmptyString, EmptyString), err |-> TRUE, rest |-> k.rest]
    ELSE LET v == ReadString(k.rest, NL) IN
         IF v.err
         THEN [kv |-> KeyValue(EmptyString, EmptyString), err |-> TRUE, rest |-> v.rest]
         ELSE [kv |-> KeyValue(TrimRight(k.s, TAB), TrimRight(v.s, NL)),
               err |-> FALSE, rest |-> v.rest]

\* A writer that leaves the TAB out when the key is empty.
printEmitterEmit_ValueOnlyWhenKeyEmpty(w, key, value) ==
    IF key = EmptyString
    THEN w \o value \o <<NL>>
    ELSE w \o key \o <<TAB>> \o value \o <<NL>>

\* printEmitter.Emit: the bytes the bufio.Writer w holds after the call.
printEmitterEmit(w, key, value) ==
    w \o key \o <<TAB>> \o value \o <<NL>>

\* ------------------------------------------------------------------------
\* Partitioning
\* ------------------------------------------------------------------------

AdlerMod == 65521

\* hash/adler32: a starts at 1, b at 0; the checksum is b<<16 | a.
RECURSIVE adlerUpdate(_, _, _)
adlerUpdate(p, a, b) ==
    IF p = << >> THEN b * 65536 + a
    ELSE LET a2 == (a + Head(p)) % AdlerMod IN
         adlerUpdate(Tail(p), a2, (b + a2) % AdlerMod)

adler32Checksum(p) == adlerUpdate(p, 1, 0)

\* A partitioner that sends every key to the first partition.
partitionOf_AlwaysFirst(key, partitions) == 0

\* A partitioner whose modulus is one too large.
partitionOf_ModulusOffByOne(key, partitions) ==
    IF partitions > 1
    THEN adler32Checksum(key) % (partitions + 1)
    ELSE 0

\* The partition index partitionEmitter.Emit computes for a key.
partitionOf(key, partitions) ==
    IF partitions > 1
    THEN adler32Checksum(key) % partitions
    ELSE 0

\* ------------------------------------------------------------------------
\* The file system: a function from the names of the files that exist to
\* their contents. A name is a tuple: <<"tmp-map-out", f, partition>> for
\* tmp-map-out-p<pid>-f<f>.<partition>, <<"tmp-red-in", partition>>,
\* <<"red-out", partition>>, <<"input", i>> for the i-th input file.
\* ------------------------------------------------------------------------

NoName == << >>

FsCreate(fsys, name) ==
    [n \in DOMAIN fsys \cup {name} |-> IF n = name THEN EmptyString ELSE fsys[n]]

\* A write through an open descriptor; a file unlinked meanwhile is not
\* brought back.
FsWrite(fsys, name, bytes) ==
    IF name \in DOMAIN fsys
    THEN [fsys EXCEPT ![name] = @ \o bytes]
    ELSE fsys

FsRemove(fsys, names) ==
    [n \in DOMAIN fsys \ names |-> fsys[n]]

\* ------------------------------------------------------------------------
\* partitionEmitter
\* ------------------------------------------------------------------------

NilFile == [nil |-> TRUE, name |-> NoName, closed |-> FALSE]
NilEmitter == [nil |-> TRUE, w |-> EmptyString]

newPartitionEmitter(partitions, template) ==
    [partitions |-> partitions,
     fileNameTemplate |-> template,
     FileNames |-> [p \in 0..(partitions - 1) |-> NoName],
     fds |-> [p \in 0..(partitions - 1) |-> NilFile],
     emitters |-> [p \in 0..(partitions - 1) |-> NilEmitter]]

\* fmt.Sprintf("%s.%04d", e.fileNameTemplate, partition)
PartitionFileName(template, partition) == template \o <<partition>>

\* An emitter that opens the partition's file at every Emit.
SinkMissing_Always(e, partition) == TRUE

\* An emitter that opens the partition's file again when it has no handle.
SinkMissing_OrNoHandle(e, partition) ==
    e.emitters[partition].nil \/ e.fds[partition].nil

\* e.emitters[partition] == nil
SinkMissing(e, partition) == e.emitters[partition].nil

\* partitionEmitter.Emit; createOK says whether os.Create succeeds should
\* this call open the partition's file. The result is the emitter, the
\* file system and the partition index the call computed.
partitionEmitterEmit(e, fsys, key, value, createOK) ==
    LET partition == partitionOf(key, e.partitions) IN
    IF partition \notin DOMAIN e.emitters
    THEN \* e.emitters[partition]: index out of range, a run-time panic
         [e |-> e, fs |-> fsys, partition |-> partition, panic |-> TRUE]
    ELSE
    LET name == PartitionFileName(e.fileNameTemplate, partition)
        open == SinkMissing(e, partition)
        e1 == IF open
              THEN [e EXCEPT !.FileNames[partition] = name,
                             !.fds[partition] =
                                 IF createOK
                                 THEN [nil |-> FALSE, name |-> name, closed |-> FALSE]
                                 ELSE NilFile,
                             !.emitters[partition] = [nil |-> FALSE, w |-> EmptyString]]
              ELSE e
    IN [e |-> [e1 EXCEPT !.emitters[partition].w = printEmitterEmit(@, key, value)],
        fs |-> IF open /\ createOK THEN FsCreate(fsys, name) ELSE fsys,
        partition |-> partition,
        panic |-> FALSE]

\* The partitions whose buffered bytes a Flush can write out.
Flushable(e) ==
    {p \in DOMAIN e.emitters :
        ~e.emitters[p].nil /\ ~e.fds[p].nil /\ ~e.fds[p].closed}

\* partitionEmitter.Flush: every opened sink's buffer goes to its file; a
\* sink whose file could not be created keeps its bytes (the write fails).
partitionEmitterFlush(e, fsys) ==
    [e |-> [e EXCEPT !.emitters =
                [p \in DOMAIN e.emitters |->
                    IF p \in Flushable(e)
                    THEN [e.emitters[p] EXCEPT !.w = EmptyString]
                    ELSE e.emitters[p]]],
     fs |-> [n \in DOMAIN fsys |->
                IF \E p \in Flushable(e) : e.fds[p].name = n
                THEN LET p == CHOOSE q \in Flushable(e) : e.fds[q].name = n
                     IN fsys[n] \o e.emitters[p].w
                ELSE fsys[n]]]

\* partitionEmitter.Close: every opened file handle is closed.
partitionEmitterClose(e) ==
    [e EXCEPT !.fds = [p \in DOMAIN e.fds |->
                          IF e.fds[p].nil THEN e.fds[p]
                          ELSE [e.fds[p] EXCEPT !.closed = TRUE]]]

\* ------------------------------------------------------------------------
\* The word-count job (examples/wordcount.go)
\* ------------------------------------------------------------------------

ToLowerByte(c) == IF c >= UpperA /\ c <= UpperZ THEN c + (LowerA - UpperA) ELSE c

\* The function wordcount's Map hands to strings.Map.
LetterOrSpace(c) == IF c >= LowerA /\ c <= LowerZ THEN c ELSE Space

IsSpace(c) == c \in {Space, TAB, NL, 11, 12, 13}

RECURSIVE TrimLeftSpace(_)
TrimLeftSpace(s) ==
    IF Len(s) > 0 /\ IsSpace(s[1]) THEN TrimLeftSpace(Tail(s)) ELSE s

RECURSIVE TrimRightSpace(_)
TrimRightSpace(s) ==
    IF Len(s) > 0 /\ IsSpace(s[Len(s)])
    THEN TrimRightSpace(SubSeq(s, 1, Len(s) - 1))
    ELSE s

TrimSpace(s) == TrimRightSpace(TrimLeftSpace(s))

\* strings.Fields: the maximal runs of non-space bytes, in order.
RECURSIVE FieldsFrom(_, _, _)
FieldsFrom(s, cur, acc) ==
    IF s = << >>
    THEN IF cur = << >> THEN acc ELSE Append(acc, cur)
    ELSE IF IsSpace(Head(s))
         THEN FieldsFrom(Tail(s), << >>, IF cur = << >> THEN acc ELSE Append(acc, cur))
         ELSE FieldsFrom(Tail(s), Append(cur, Head(s)), acc)

Fields(s) == FieldsFrom(s, << >>, << >>)

\* strconv.Itoa
RECURSIVE ItoaNat(_)
ItoaNat(n) ==
    IF n < 10 THEN <<Digit0 + n>>
    ELSE Append(ItoaNat(n \div 10), Digit0 + (n % 10))

Itoa(n) == IF n < 0 THEN <<45>> \o ItoaNat(0 - n) ELSE ItoaNat(n)

IsDigit(c) == c >= Digit0 /\ c <= Digit0 + 9

RECURSIVE AtoiDigits(_, _)
AtoiDigits(s, acc) ==
    IF s = << >> THEN acc
    ELSE AtoiDigits(Tail(s), acc * 10 + (Head(s) - Digit0))

\* strconv.Atoi with its error dropped: 0 for what is not a number.
Atoi(s) ==
    LET signed == Len(s) > 0 /\ s[1] \in {43, 45}
        digits == IF signed THEN Tail(s) ELSE s
    IN IF digits = << >> \/ \E i \in 1..Len(digits) : ~IsDigit(digits[i])
       THEN 0
       ELSE IF signed /\ s[1] = 45
            THEN 0 - AtoiDigits(digits, 0)
            ELSE AtoiDigits(digits, 0)

\* WordCountProto.MarshalKV
MarshalKV(ks, vi) ==
    IF vi = 1 THEN KeyValue(ks, <<Digit0 + 1>>) ELSE KeyValue(ks, Itoa(vi))

\* WordCountProto.UnmarshalKVs: the values as integers.
UnmarshalKVs(values) == [i \in 1..Len(values) |-> Atoi(values[i])]

RECURSIVE SumSeq(_)
SumSeq(s) == IF s = << >> THEN 0 ELSE Head(s) + SumSeq(Tail(s))

\* The words MRWordCount.Map finds in one input line.
MapWords(value) ==
    LET lower == [i \in 1..Len(value) |-> ToLowerByte(value[i])]
        letters == [i \in 1..Len(lower) |-> LetterOrSpace(lower[i])]
    IN Fields(TrimSpace(letters))

\* MRWordCount.Reduce: the one record it emits.
ReduceEmit(key, values) == MarshalKV(key, SumSeq(UnmarshalKVs(values)))

\* ------------------------------------------------------------------------
\* Phase runners
\* ------------------------------------------------------------------------

\* mapper: the values Map is called with (its key is always empty), one per
\* line read, until the first failed read.
RECURSIVE mapperLoop(_, _)
mapperLoop(br, calls) ==
    LET r == readLineValue(br) IN
    IF r.err THEN calls
    ELSE mapperLoop(r.rest, Append(calls, r.kv.Value))

\* A mapper that takes the bytes after the last NEWLINE as a line too.
mapper_KeepsLastLine(r) ==
    mapperLoop(IF r # EmptyString /\ r[Len(r)] # NL THEN r \o <<NL>> ELSE r, << >>)

\* mapper: the values of the Map calls, in order.
mapper(r) == mapperLoop(r, << >>)

ReduceCall(key, values) == [key |-> key, values |-> values]

\* The loop of reducer and its final call: the Reduce calls made, in order.
RECURSIVE reducerLoop(_, _, _, _)
reducerLoop(br, currentKey, values, calls) ==
    LET r == readLineKeyValue(br) IN
    IF r.err
    THEN Append(calls, ReduceCall(currentKey, values))
    ELSE IF currentKey = r.kv.Key
         THEN reducerLoop(r.rest, currentKey, Append(values, r.kv.Value), calls)
         ELSE IF currentKey # EmptyString
              THEN reducerLoop(r.rest, r.kv.Key, <<r.kv.Value>>,
                               Append(calls, ReduceCall(currentKey, values)))
              ELSE reducerLoop(r.rest, r.kv.Key, Append(values, r.kv.Value), calls)

\* A reducer that makes no final call when it has read nothing.
reducer_NoCallOnEmptyInput(r) ==
    IF readLineKeyValue(r).err THEN << >>
    ELSE reducerLoop(r, EmptyString, << >>, << >>)

\* reducer: the Reduce calls it makes over the stream r.
reducer(r) == reducerLoop(r, EmptyString, << >>, << >>)

\* What the word-count job's Reduce calls write through a printEmitter
\* whose buffer holds w.
RECURSIVE EmitReduceCalls(_, _)
EmitReduceCalls(w, calls) ==
    IF calls = << >> THEN w
    ELSE LET kv == ReduceEmit(Head(calls).key, Head(calls).values) IN
         EmitReduceCalls(printEmitterEmit(w, kv.Key, kv.Value), Tail(calls))

\* ------------------------------------------------------------------------
\* /usr/bin/sort -o out in...: the lines of the input files, in byte order.
\* ------------------------------------------------------------------------

RECURSIVE LexLeq(_, _)
LexLeq(a, b) ==
    IF a = << >> THEN TRUE
    ELSE IF b = << >> THEN FALSE
    ELSE IF a[1] < b[1] THEN TRUE
    ELSE IF a[1] > b[1] THEN FALSE
    ELSE LexLeq(Tail(a), Tail(b))

RECURSIVE SplitLines(_)
SplitLines(bytes) ==
    IF bytes = << >> THEN << >>
    ELSE LET r == ReadString(bytes, NL) IN
         <<TrimRight(r.s, NL)>> \o SplitLines(r.rest)

RECURSIVE InsertLine(_, _)
InsertLine(sorted, line) ==
    IF sorted = << >> THEN <<line>>
    ELSE IF LexLeq(line, Head(sorted)) THEN <<line>> \o sorted
    ELSE <<Head(sorted)>> \o InsertLine(Tail(sorted), line)

RECURSIVE SortLines(_)
SortLines(lines) ==
    IF lines = << >> THEN << >>
    ELSE InsertLine(SortLines(Tail(lines)), Head(lines))

JoinLines(lines) == Flatten([i \in 1..Len(lines) |-> lines[i] \o <<NL>>])

\* ========================================================================
\* State
\* ========================================================================

VARIABLES
    \* the wire codec's round trip
    codec,
    \* one run of reducer over a stream
    red,
    \* partitioned emitters
    part,
    \* Main in stream-compatible mode
    mainv,
    \* the standalone run (mapreduce)
    optNumPartitions, optNumMappers, optNumReducers,
    mapperInputFiles, stdin, fs,
    pcMain, sendIdx, wg, mapperWorkClosed, partitionsClosed,
    mw, rw, mainEmit, mrjob, stderr, stdout, hist,
    \* the steps the goroutines of the standalone run have taken
    steps

orchVars == <<optNumPartitions, optNumMappers, optNumReducers,
              mapperInputFiles, stdin, fs,
              pcMain, sendIdx, wg, mapperWorkClosed, partitionsClosed,
              mw, rw, mainEmit, mrjob, stderr, stdout, hist, steps>>

vars == <<codec, red, part, mainv, orchVars>>

\* The value of the variables of the parts a specification leaves out.
Idle == [pc |-> "idle"]

OrchIdle ==
    /\ optNumPartitions = 0 /\ optNumMappers = 0 /\ optNumReducers = 0
    /\ mapperInputFiles = << >> /\ stdin = << >> /\ fs = << >>
    /\ pcMain = "idle" /\ sendIdx = 0 /\ wg = 0
    /\ mapperWorkClosed = FALSE /\ partitionsClosed = FALSE
    /\ mw = << >> /\ rw = << >> /\ mainEmit = Idle /\ mrjob = Idle
    /\ stderr = << >> /\ stdout = << >> /\ hist = Idle /\ steps = 0

\* ========================================================================
\* The wire codec: records written by printEmitter.Emit, flushed, and read
\* back by readLineKeyValue
\* ========================================================================

MaxRecords == 2

CodecStrings == {EmptyString, <<ByteA>>, <<ByteA, ByteB>>, <<TAB>>, <<NL>>}

CodecRecords == {KeyValue(k, v) : k \in CodecStrings, v \in CodecStrings}

CodecInit ==
    /\ codec \in {[records |-> rs, emitted |-> 0, w |-> EmptyString,
                   stream |-> EmptyString, out |-> << >>, pc |-> "emit"] :
                     rs \in SeqsUpTo(CodecRecords, MaxRecords)}
    /\ red = Idle /\ part = Idle /\ mainv = Idle
    /\ OrchIdle

\* printEmitter.Emit of the next record.
CodecEmit ==
    /\ codec.pc = "emit"
    /\ codec.emitted < Len(codec.records)
    /\ LET kv == codec.records[codec.emitted + 1] IN
       codec' = [codec EXCEPT !.w = printEmitterEmit(@, kv.Key, kv.Value),
                              !.emitted = @ + 1]
    /\ UNCHANGED <<red, part, mainv, orchVars>>

\* printEmitter.Flush: the buffer goes to the stream.
CodecFlush ==
    /\ codec.pc = "emit"
    /\ codec.emitted = Len(codec.records)
    /\ codec' = [codec EXCEPT !.stream = @ \o codec.w, !.w = EmptyString,
                              !.pc = "read"]
    /\ UNCHANGED <<red, part, mainv, orchVars>>

\* One call of readLineKeyValue on the stream.
CodecRead ==
    /\ codec.pc = "read"
    /\ LET r == readLineKeyValue(codec.stream) IN
       IF r.err
       THEN codec' = [codec EXCEPT !.stream = r.rest, !.pc = "done"]
       ELSE codec' = [codec EXCEPT !.stream = r.rest, !.out = Append(@, r.kv)]
    /\ UNCHANGED <<red, part, mainv, orchVars>>

CodecNext == CodecEmit \/ CodecFlush \/ CodecRead

SpecCodec == CodecInit /\ [][CodecNext]_vars

\* A string with neither delimiter in it.
Clean(s) == ~Contains(s, TAB) /\ ~Contains(s, NL)

CleanRecords(rs) == \A i \in 1..Len(rs) : Clean(rs[i].Key) /\ Clean(rs[i].Value)

\* C8: records whose keys and values hold neither TAB nor NEWLINE (empty
\* ones included), written by printEmitter.Emit and flushed, are read back
\* by readLineKeyValue as the same records in the same order; the reader
\* then signals the end of the stream.
C8_RoundTrip ==
    (codec.pc = "done" /\ CleanRecords(codec.records)) => codec.out = codec.records

\* Two clean records, one with an empty key and one with an empty value,
\* have made the round trip.
C8_Witness ==
    /\ codec.pc = "done"
    /\ Len(codec.records) = 2
    /\ CleanRecords(codec.records)
    /\ \E i \in 1..2 : codec.records[i].Key = EmptyString /\ codec.records[i].Value # EmptyString
    /\ \E i \in 1..2 : codec.records[i].Value = EmptyString /\ codec.records[i].Key # EmptyString
    /\ codec.out = codec.records

\* ========================================================================
\* reducer over a stream, with the word-count job
\* ========================================================================

MaxPieces == 3

ReduceKeys == {EmptyString, <<ByteA>>, <<ByteB>>}
ReduceValues == {<<ByteX>>, <<ByteY>>}

\* Chunks that are no key/value line: no delimiter at all, no TAB, no NEWLINE.
MalformedChunks == {<<ByteA>>, <<ByteA, NL>>, <<ByteA, TAB, ByteX>>}

\* A piece of an input stream: a record as printEmitter.Emit writes it, or
\* a malformed chunk.
ReducePieces ==
    {[isRecord |-> TRUE, kv |-> KeyValue(k, v), raw |-> EmptyString] :
        k \in ReduceKeys, v \in ReduceValues}
    \cup
    {[isRecord |-> FALSE, kv |-> KeyValue(EmptyString, EmptyString), raw |-> b] :
        b \in MalformedChunks}

PieceBytes(p) ==
    IF p.isRecord THEN printEmitterEmit(EmptyString, p.kv.Key, p.kv.Value) ELSE p.raw

ReduceInit ==
    /\ red \in {[pieces |-> ps,
                 input |-> Flatten([i \in 1..Len(ps) |-> PieceBytes(ps[i])]),
                 calls |-> << >>, w |-> EmptyString, out |-> EmptyString,
                 pc |-> "start"] :
                   ps \in SeqsUpTo(ReducePieces, MaxPieces)}
    /\ codec = Idle /\ part = Idle /\ mainv = Idle
    /\ OrchIdle

\* reducer(mrjob, r, emitter): every Reduce call and what it emits.
ReducerRun ==
    /\ red.pc = "start"
    /\ LET calls == reducer(red.input) IN
       red' = [red EXCEPT !.calls = calls,
                          !.w = EmitReduceCalls(@, calls),
                          !.pc = "reduced"]
    /\ UNCHANGED <<codec, part, mainv, orchVars>>

\* emitter.Flush after the reducer returned.
ReducerFlush ==
    /\ red.pc = "reduced"
    /\ red' = [red EXCEPT !.out = @ \o red.w, !.w = EmptyString, !.pc = "done"]
    /\ UNCHANGED <<codec, part, mainv, orchVars>>

ReduceNext == ReducerRun \/ ReducerFlush

SpecReduce == ReduceInit /\ [][ReduceNext]_vars

RecordsOf(ps) == [i \in 1..Len(ps) |-> ps[i].kv]

AllRecords(ps) == \A i \in 1..Len(ps) : ps[i].isRecord

\* Records with equal keys are adjacent.
KeysAdjacent(rs) ==
    \A i, j \in 1..Len(rs) :
        (i < j /\ rs[i].Key = rs[j].Key) => \A m \in i..j : rs[m].Key = rs[i].Key

\* The number of leading records of rs that carry the key of its first.
RECURSIVE RunLength(_)
RunLength(rs) ==
    IF Len(rs) <= 1 THEN Len(rs)
    ELSE IF rs[2].Key = rs[1].Key THEN 1 + RunLength(Tail(rs))
    ELSE 1

\* One (key, values) group per maximal run of records with one key.
RECURSIVE GroupRuns(_)
GroupRuns(rs) ==
    IF rs = << >> THEN << >>
    ELSE LET n == RunLength(rs) IN
         <<ReduceCall(rs[1].Key, [i \in 1..n |-> rs[i].Value])>>
             \o GroupRuns(SubSeq(rs, n + 1, Len(rs)))

\* C1: over a stream of at least one record in which equal keys are
\* adjacent, reducer calls Reduce exactly once per distinct key (the empty
\* key included), with exactly that key's values in the order read.
C1_OneReducePerKey ==
    (/\ red.pc # "start"
     /\ Len(red.pieces) >= 1
     /\ AllRecords(red.pieces)
     /\ KeysAdjacent(RecordsOf(red.pieces)))
    => red.calls = GroupRuns(RecordsOf(red.pieces))

\* The stream holds no complete key/value line at its head: no TAB, or no
\* NEWLINE after the first TAB.
NoFirstRecord(stream) ==
    LET t == IndexByte(stream, TAB) IN
    t = 0 \/ \A i \in (t + 1)..Len(stream) : stream[i] # NL

\* C2: when the stream yields no record (it is empty, or the first read
\* fails), Reduce is called exactly once, with the empty key and no values.
C2_EmptyInputOneReduce ==
    (red.pc # "start" /\ NoFirstRecord(red.input))
    => red.calls = <<ReduceCall(EmptyString, << >>)>>

\* reducer has run over a stream that is not empty and whose first read
\* fails, and made its one call.
C2_Witness ==
    /\ red.pc = "done"
    /\ red.input # EmptyString
    /\ NoFirstRecord(red.input)
    /\ red.calls = <<ReduceCall(EmptyString, << >>)>>

\* ========================================================================
\* Partitioned emitters: two instances, each with its own partition count
\* and file-name template, driven by any sequence of Emit, Flush and Close
\* ========================================================================

\* The history's count of the event k, one more.
Counted(times, k) ==
    [x \in DOMAIN times \cup {k} |->
        IF x = k THEN (IF k \in DOMAIN times THEN times[k] ELSE 0) + 1 ELSE times[x]]

MaxPartitions == 3
MaxEmits == 3

Emitters == {1, 2}

PartKeys == {EmptyString, <<ByteA>>, <<ByteB>>}

PartValue == <<Digit0 + 1>>

\* A template that leaves the work item's index out of the name.
MapOutTemplate_IgnoresIndex(index) == <<"tmp-map-out", 0>>

MapOutTemplate(index) == <<"tmp-map-out", index>>

PartInit ==
    /\ part \in {[pe |-> [i \in Emitters |->
                            newPartitionEmitter(ps[i], MapOutTemplate(i - 1))],
                  fs |-> << >>,
                  log |-> {},
                  emits |-> 0,
                  panicked |-> FALSE,
                  times |-> << >>,
                  failed |-> {}] :
                    ps \in [Emitters -> 1..MaxPartitions]}
    /\ codec = Idle /\ red = Idle /\ mainv = Idle
    /\ OrchIdle

\* partitionEmitter.Emit on instance i; the log keeps, per call, the
\* instance, its partition count, the key and the index computed; times
\* counts the Emit calls and the os.Create calls per instance and partition,
\* and failed keeps the partitions whose os.Create failed.
PartEmit(i, key, createOK) ==
    /\ ~part.panicked
    /\ part.emits < MaxEmits
    /\ LET r == partitionEmitterEmit(part.pe[i], part.fs, key, PartValue, createOK) IN
       part' = [part EXCEPT !.pe[i] = r.e,
                            !.fs = r.fs,
                            !.log = @ \cup {[e |-> i,
                                             partitions |-> part.pe[i].partitions,
                                             key |-> key,
                                             partition |-> r.partition]},
                            !.emits = @ + 1,
                            !.panicked = r.panic,
                            !.times =
                               IF r.panic THEN @
                               ELSE LET t == Counted(@, <<"emit", i, r.partition>>) IN
                                    IF SinkMissing(part.pe[i], r.partition)
                                    THEN Counted(t, <<"create", i, r.partition>>)
                                    ELSE t,
                            !.failed =
                               IF ~r.panic /\ SinkMissing(part.pe[i], r.partition) /\ ~createOK
                               THEN @ \cup {<<i, r.partition>>}
                               ELSE @]
    /\ UNCHANGED <<codec, red, mainv, orchVars>>

PartFlush(i) ==
    /\ ~part.panicked
    /\ LET r == partitionEmitterFlush(part.pe[i], part.fs) IN
       part' = [part EXCEPT !.pe[i] = r.e, !.fs = r.fs]
    /\ UNCHANGED <<codec, red, mainv, orchVars>>

PartClose(i) ==
    /\ ~part.panicked
    /\ part' = [part EXCEPT !.pe[i] = partitionEmitterClose(@)]
    /\ UNCHANGED <<codec, red, mainv, orchVars>>

PartNext ==
    \E i \in Emitters :
        \/ \E key \in PartKeys, createOK \in BOOLEAN : PartEmit(i, key, createOK)
        \/ PartFlush(i)
        \/ PartClose(i)

SpecPart == PartInit /\ [][PartNext]_vars

\* C3: the partition index Emit computes lies in [0, P); it is 0 when
\* P = 1; and any two Emit calls with the same key and the same P, in one
\* emitter instance or in two, whatever each instance has emitted, opened,
\* flushed or closed before, compute the same index.
C3_PartitionPureInRange ==
    /\ \A x \in part.log :
          /\ x.partition \in 0..(x.partitions - 1)
          /\ x.partitions = 1 => x.partition = 0
    /\ \A x, y \in part.log :
          (x.key = y.key /\ x.partitions = y.partitions) => x.partition = y.partition

\* Two instances with the same partition count P > 1 have each emitted the
\* same key, one of them after emitting another key to another partition.
C3_Witness ==
    \E x, y, z \in part.log :
        /\ x.e # y.e
        /\ x.key = y.key
        /\ x.partitions = y.partitions
        /\ x.partitions > 1
        /\ z.e = x.e
        /\ z.partition # x.partition
        /\ x.partition = y.partition

\* ========================================================================
\* Main: the mode dispatcher and the stream-compatible phases
\* ========================================================================

Call(op, key, values) == [op |-> op, key |-> key, values |-> values]

\* What Map writes for one input line through a printEmitter holding w.
RECURSIVE EmitWords(_, _)
EmitWords(w, words) ==
    IF words = << >> THEN w
    ELSE LET kv == MarshalKV(Head(words), 1) IN
         EmitWords(printEmitterEmit(w, kv.Key, kv.Value), Tail(words))

RECURSIVE EmitMapCalls(_, _)
EmitMapCalls(w, values) ==
    IF values = << >> THEN w
    ELSE EmitMapCalls(EmitWords(w, MapWords(Head(values))), Tail(values))

\* The number of words Map counts over the given lines.
RECURSIVE CountWords(_)
CountWords(values) ==
    IF values = << >> THEN 0
    ELSE Len(MapWords(Head(values))) + CountWords(Tail(values))

\* A dispatcher that looks at the single-phase flags before --mapreduce.
MainDispatch_PhaseFlagsFirst(doMapReduce, doMap, doReduce) ==
    IF doMap /\ doReduce THEN "both"
    ELSE IF doMapReduce THEN "mapreduce"
    ELSE IF ~doMap /\ ~doReduce THEN "neither"
    ELSE "phase"

\* The branch Main takes.
MainDispatch(doMapReduce, doMap, doReduce) ==
    IF doMapReduce THEN "mapreduce"
    ELSE IF doMap /\ doReduce THEN "both"
    ELSE IF ~doMap /\ ~doReduce THEN "neither"
    ELSE "phase"

MainInputs ==
    {EmptyString,
     <<ByteA, Space, ByteB, NL>>,
     <<UpperA, NL, ByteA, NL, ByteB>>,
     <<ByteA, TAB, Digit0 + 1, NL>>,
     <<ByteA, TAB, Digit0 + 1, NL, ByteA, TAB, Digit0 + 1, NL, ByteB, TAB, Digit0 + 2, NL>>,
     <<TAB, Digit0 + 1, NL, ByteB>>,
     <<NL>>,
     <<ByteB>>,
     <<ByteA, NL, NL, ByteB, Space, ByteA, NL>>}

MainInit ==
    /\ mainv \in {[optDoMapReduce |-> mr, optDoMap |-> m, optDoReduce |-> r,
                   stdin |-> in, stdin0 |-> in, pc |-> "start", calls |-> << >>,
                   mappedWords |-> 0, w |-> EmptyString, stdout |-> EmptyString,
                   stderr |-> << >>, printed |-> "", exit |-> -1] :
                     mr \in BOOLEAN, m \in BOOLEAN, r \in BOOLEAN, in \in MainInputs}
    /\ codec = Idle /\ red = Idle /\ part = Idle
    /\ OrchIdle

\* Main up to the creation of the emitter: the call of mapreduce (the
\* standalone run itself is the specification Spec), or one of the two
\* configuration errors, or on to the phases.
MainStart ==
    /\ mainv.pc = "start"
    /\ LET mode == MainDispatch(mainv.optDoMapReduce, mainv.optDoMap, mainv.optDoReduce) IN
       mainv' =
         CASE mode = "mapreduce" ->
                [mainv EXCEPT !.calls = <<Call("mapreduce", EmptyString, << >>)>>,
                              !.pc = "returned", !.exit = 0]
           [] mode = "both" ->
                [mainv EXCEPT !.printed = "can either map or reduce, not both",
                              !.pc = "exited", !.exit = 1]
           [] mode = "neither" ->
                [mainv EXCEPT !.printed = "neither map nor reduce called",
                              !.pc = "exited", !.exit = 1]
           [] OTHER ->
                [mainv EXCEPT !.pc = IF mainv.optDoMap THEN "mapper"
                                     ELSE IF mainv.optDoReduce THEN "reducer"
                                     ELSE "flush"]
    /\ UNCHANGED <<codec, red, part, orchVars>>

\* A Main that goes from mapper straight to the flush.
MainAfterMapper_SkipsFinal == "flush"

\* Where Main goes when mapper returns: mapper_final(mrjob, emitter).
MainAfterMapper == "mapper_final"

\* mapper(mrjob, os.Stdin, emitter)
MainMapper ==
    /\ mainv.pc = "mapper"
    /\ LET values == mapper(mainv.stdin) IN
       mainv' = [mainv EXCEPT
                   !.calls = @ \o [i \in 1..Len(values) |->
                                     Call("Map", EmptyString, <<values[i]>>)],
                   !.w = EmitMapCalls(@, values),
                   !.mappedWords = @ + CountWords(values),
                   !.stdin = EmptyString,
                   !.pc = MainAfterMapper]
    /\ UNCHANGED <<codec, red, part, orchVars>>

\* mapper_final(mrjob, emitter): MapFinal reports the counter and emits
\* nothing.
MainMapperFinal ==
    /\ mainv.pc = "mapper_final"
    /\ mainv' = [mainv EXCEPT
                   !.calls = Append(@, Call("MapFinal", EmptyString, << >>)),
                   !.stderr = @ \o <<[status |-> "finished -- mapped", n |-> mainv.mappedWords],
                                     [counter |-> "mapped words", n |-> mainv.mappedWords]>>,
                   !.pc = IF mainv.optDoReduce THEN "reducer" ELSE "flush"]
    /\ UNCHANGED <<codec, red, part, orchVars>>

\* reducer(mrjob, os.Stdin, emitter)
MainReducer ==
    /\ mainv.pc = "reducer"
    /\ LET calls == reducer(mainv.stdin) IN
       mainv' = [mainv EXCEPT
                   !.calls = @ \o [i \in 1..Len(calls) |->
                                     Call("Reduce", calls[i].key, calls[i].values)],
                   !.w = EmitReduceCalls(@, calls),
                   !.stdin = EmptyString,
                   !.pc = "flush"]
    /\ UNCHANGED <<codec, red, part, orchVars>>

\* emitter.Flush() and the return of Main.
MainFlush ==
    /\ mainv.pc = "flush"
    /\ mainv' = [mainv EXCEPT !.stdout = @ \o mainv.w, !.w = EmptyString,
                              !.pc = "done", !.exit = 0]
    /\ UNCHANGED <<codec, red, part, orchVars>>

MainNext == MainStart \/ MainMapper \/ MainMapperFinal \/ MainReducer \/ MainFlush

SpecMain == MainInit /\ [][MainNext]_vars

CallOps(calls) == {calls[i].op : i \in 1..Len(calls)}

\* C7: once Main has dispatched, (a) with --mapreduce it has called the
\* orchestrator and nothing else, whatever --mapper and --reducer are;
\* (b) without it and with exactly one of --mapper / --reducer, only that
\* phase's job operations are ever called, and when Main is done the phase
\* has run and its output is on stdout; (c) without it and with both or
\* neither, the process has printed the error and exited with a non-zero
\* status without any call of Map, MapFinal or Reduce.
C7_ModeSelection ==
    mainv.pc # "start" =>
      /\ mainv.optDoMapReduce =>
            /\ mainv.pc = "returned"
            /\ mainv.calls = <<Call("mapreduce", EmptyString, << >>)>>
      /\ (~mainv.optDoMapReduce /\ mainv.optDoMap /\ ~mainv.optDoReduce) =>
            /\ mainv.pc \in {"mapper", "mapper_final", "flush", "done"}
            /\ CallOps(mainv.calls) \subseteq {"Map", "MapFinal"}
            /\ mainv.pc = "done" =>
                  /\ "MapFinal" \in CallOps(mainv.calls)
                  /\ mainv.exit = 0
                  /\ mainv.stdout = EmitMapCalls(EmptyString, mapper(mainv.stdin0))
      /\ (~mainv.optDoMapReduce /\ ~mainv.optDoMap /\ mainv.optDoReduce) =>
            /\ mainv.pc \in {"reducer", "flush", "done"}
            /\ CallOps(mainv.calls) \subseteq {"Reduce"}
            /\ mainv.pc = "done" =>
                  /\ "Reduce" \in CallOps(mainv.calls)
                  /\ mainv.exit = 0
      /\ (~mainv.optDoMapReduce /\ (mainv.optDoMap <=> mainv.optDoReduce)) =>
            /\ mainv.pc = "exited"
            /\ mainv.exit # 0
            /\ mainv.printed # ""
            /\ mainv.calls = << >>
            /\ mainv.stdout = EmptyString

\* --mapreduce together with both single-phase flags: the orchestrator was
\* called.
C7_Witness ==
    /\ mainv.optDoMapReduce /\ mainv.optDoMap /\ mainv.optDoReduce
    /\ mainv.pc = "returned"
    /\ mainv.calls = <<Call("mapreduce", EmptyString, << >>)>>

\* ========================================================================
\* The standalone run: mapreduce(mrjob) with the word-count job
\* ========================================================================

MaxRunPartitions == 2
MaxMappers == 2
MaxReducers == 2
MaxFiles == 2

\* What an input file named on the command line may be: a file with this
\* content, or a file that cannot be opened.
Missing == <<-1>>

InputContents ==
    {<<ByteA, Space, ByteB, NL>>,
     <<UpperA, NL, ByteB>>}

InputChoices == InputContents \cup {Missing}

InputName(index) == <<"input", index>>
RedInName(partition) == <<"tmp-red-in", partition>>
RedOutName_NoPartition(partition) == <<"red-out", 0>>
RedOutName(partition) == <<"red-out", partition>>

IsMapOut(n) == Len(n) = 3 /\ n[1] = "tmp-map-out"
IsRedIn(n) == Len(n) = 2 /\ n[1] = "tmp-red-in"

\* A glob that finds the first work item's files only.
Glob_FirstIndexOnly(fsys, partition) ==
    {n \in DOMAIN fsys : IsMapOut(n) /\ n[3] = partition /\ n[2] = 0}

\* filepath.Glob("tmp-map-out-p<pid>-f*.<partition>")
Glob(fsys, partition) == {n \in DOMAIN fsys : IsMapOut(n) /\ n[3] = partition}

Msg(kind, n) == [kind |-> kind, n |-> n]

NoMapWorker ==
    [pc |-> "recv", index |-> -1, br |-> EmptyString, mEmit |-> Idle,
     words |-> << >>, tmp |-> 0]

NoReduceWorker ==
    [pc |-> "recv", partition |-> -1, fns |-> {}, w |-> EmptyString]

\* The goroutines have stopped: the process has exited.
Stopped == pcMain \in {"done", "crashed", "fatal_deadlock"}

\* A worker loop that starts a goroutine even when the count is not positive.
WorkerIds_AtLeastOne(count) == 1..(IF count < 1 THEN 1 ELSE count)

\* A worker loop that starts one goroutine more than the count.
WorkerIds_OneMore(count) == 1..(count + 1)

\* for i := 0; i < count; i++ { wg.Add(1); go ... }: the goroutines started.
WorkerIds(count) == 1..count

\* A Done that leaves the counter as it is.
WaitGroupDone_Forgotten(count) == count

\* wg.Done()
WaitGroupDone(count) == count - 1

\* A barrier that lets the coordinator through at once.
MapBarrierPassed_AtOnce(count) == TRUE

\* wg.Wait() after the map stage returns when the counter is zero.
MapBarrierPassed(count) == count = 0

\* A barrier that lets the coordinator through at once.
ReduceBarrierPassed_AtOnce(count) == TRUE

\* wg.Wait() after the reduce stage returns when the counter is zero.
ReduceBarrierPassed(count) == count = 0

\* A MapFinal emitter that takes the first work item's index.
MapFinalIndex_First(files) == 0

\* The index of the emitter MapFinal gets in file mode:
\* len(mapperInputFiles).
MapFinalIndex(files) == Len(files)

\* A reduce worker that does not wait for the sort it started.
AfterStartProcess_NoWait == "reduce"

\* Where a reduce worker is after a successful os.StartProcess: in
\* p.Wait().
AfterStartProcess == "sorting"

\* The job instance map worker w calls Map on: the goroutines close over
\* the one mrjob that mapreduce was given.
JobInstanceOf(w) == "mrjob"

\* A sender that offers the same item again.
NextWorkItem_Repeat(i) == i

\* The range loop over mapperInputFiles and the counting loop over the
\* partitions: the item sent after item i.
NextWorkItem(i) == i + 1

Init ==
    /\ optNumPartitions \in 1..MaxRunPartitions
    /\ optNumMappers \in 0..MaxMappers
    /\ optNumReducers \in 0..MaxReducers
    /\ \E n \in 0..MaxFiles :
         \E choice \in [0..(n - 1) -> InputChoices] :
            /\ mapperInputFiles = [i \in 1..n |-> InputName(i - 1)]
            /\ fs = [name \in {InputName(i) : i \in {j \in 0..(n - 1) : choice[j] # Missing}}
                        |-> choice[name[2]]]
            /\ IF n = 0 THEN stdin \in InputContents ELSE stdin = EmptyString
    /\ pcMain = "start"
    /\ sendIdx = 0
    /\ wg = 0
    /\ mapperWorkClosed = FALSE
    /\ partitionsClosed = FALSE
    /\ mw = [w \in WorkerIds(optNumMappers) |-> NoMapWorker]
    /\ rw = [w \in WorkerIds(optNumReducers) |-> NoReduceWorker]
    /\ mainEmit = Idle
    /\ mrjob = [mappedWords |-> 0]
    /\ stderr = << >>
    /\ stdout = << >>
    /\ hist = [stdin0 |-> stdin, created |-> {}, mapped |-> {}, openFailed |-> {},
               reduced |-> {}, sortFailed |-> {}, launchFailed |-> {},
               mapFinal |-> << >>, sortInput |-> << >>, sortExited |-> {},
               closed |-> {}, times |-> << >>]
    /\ steps = 0
    /\ codec = Idle /\ red = Idle /\ part = Idle /\ mainv = Idle

pureVars == <<codec, red, part, mainv>>
optVars == <<optNumPartitions, optNumMappers, optNumReducers>>

\* Every record of kvs emitted through the partitioned emitter e, in order.
RECURSIVE EmitAllPartitioned(_, _, _)
EmitAllPartitioned(e, fsys, kvs) ==
    IF kvs = << >> THEN [e |-> e, fs |-> fsys]
    ELSE LET r == partitionEmitterEmit(e, fsys, Head(kvs).Key, Head(kvs).Value, TRUE) IN
         EmitAllPartitioned(r.e, r.fs, Tail(kvs))

\* The records Map emits for the given input lines, in order.
RECURSIVE MapRecords(_)
MapRecords(values) ==
    IF values = << >> THEN << >>
    ELSE [i \in 1..Len(MapWords(Head(values))) |-> MarshalKV(MapWords(Head(values))[i], 1)]
             \o MapRecords(Tail(values))

\* The temporary files of the file system b that are not in a.
NewFiles(a, b) == (DOMAIN b) \ (DOMAIN a)

\* ------------------------------------------------------------------------
\* Map stage without input files: one pass over stdin in the main goroutine
\* ------------------------------------------------------------------------

StdinMapper ==
    /\ steps' = steps + 1
    /\ pcMain = "start"
    /\ Len(mapperInputFiles) = 0
    /\ LET values == mapper(stdin)
           r == EmitAllPartitioned(newPartitionEmitter(optNumPartitions, MapOutTemplate(0)),
                                   fs, MapRecords(values))
       IN /\ mainEmit' = r.e
          /\ fs' = r.fs
          /\ mrjob' = [mrjob EXCEPT !.mappedWords = @ + CountWords(values)]
          /\ hist' = [hist EXCEPT !.created = @ \cup NewFiles(fs, r.fs),
                                  !.mapped = @ \cup {[index |-> 0, worker |-> 0]}]
    /\ stdin' = EmptyString
    /\ pcMain' = "stdin_final"
    /\ UNCHANGED <<optVars, mapperInputFiles, sendIdx, wg, mapperWorkClosed,
                   partitionsClosed, mw, rw, stderr, stdout, pureVars>>

\* MRWordCount.MapFinal: the status line and the counter, nothing emitted.
MapFinalReport(log, job) ==
    log \o <<Msg("status: finished -- mapped", job.mappedWords),
             Msg("counter: mapped words", job.mappedWords)>>

\* The map workers that are inside mapper: between the first read of their
\* file and the read that fails.
InMapper(w) == mw[w].pc \in {"read", "incr", "emit"}

\* The map workers that are inside a Map call.
InMap(w) == mw[w].pc \in {"incr", "emit"}

\* A call of mapper_final as the history keeps it: the emitter it was
\* given and the map workers still inside mapper at that moment.
MapFinalCall(e) ==
    [emitter |-> e, mapping |-> {w \in DOMAIN mw : InMapper(w)}]

StdinMapperFinal ==
    /\ steps' = steps + 1
    /\ pcMain = "stdin_final"
    /\ stderr' = MapFinalReport(stderr, mrjob)
    /\ hist' = [hist EXCEPT !.mapFinal = Append(@, MapFinalCall(mainEmit))]
    /\ pcMain' = "stdin_close"
    /\ UNCHANGED <<optVars, mapperInputFiles, stdin, fs, sendIdx, wg, mapperWorkClosed,
                   partitionsClosed, mw, rw, mainEmit, mrjob, stdout, pureVars>>

\* mEmit.Flush(); mEmit.Close(); mapperInputFiles = {"(stdin)"}
StdinFlushClose ==
    /\ steps' = steps + 1
    /\ pcMain = "stdin_close"
    /\ LET r == partitionEmitterFlush(mainEmit, fs) IN
       /\ fs' = r.fs
       /\ mainEmit' = partitionEmitterClose(r.e)
    /\ mapperInputFiles' = <<<<"(stdin)">>>>
    /\ pcMain' = "spawn_reducers"
    /\ UNCHANGED <<optVars, stdin, sendIdx, wg, mapperWorkClosed,
                   partitionsClosed, mw, rw, mrjob, stderr, stdout, hist, pureVars>>

\* ------------------------------------------------------------------------
\* Map stage over input files: optNumMappers goroutines on an unbuffered
\* channel
\* ------------------------------------------------------------------------

\* for i < optNumMappers { wg.Add(1); go ... }: a worker does nothing but
\* wait for its first work item until the sends begin.
SpawnMappers ==
    /\ steps' = steps + 1
    /\ pcMain = "start"
    /\ Len(mapperInputFiles) > 0
    /\ wg' = wg + Cardinality(DOMAIN mw)
    /\ sendIdx' = 0
    /\ pcMain' = "send"
    /\ UNCHANGED <<optVars, mapperInputFiles, stdin, fs, mapperWorkClosed,
                   partitionsClosed, mw, rw, mainEmit, mrjob, stderr, stdout, hist,
                   pureVars>>

\* mapperWork <- &mapperFile{i, fname}, received by worker w in its range
\* loop.
SendMapWork(w) ==
    /\ steps' = steps + 1
    /\ pcMain = "send"
    /\ sendIdx < Len(mapperInputFiles)
    /\ mw[w].pc = "recv"
    /\ mw' = [mw EXCEPT ![w].pc = "open", ![w].index = sendIdx]
    /\ sendIdx' = NextWorkItem(sendIdx)
    /\ hist' = [hist EXCEPT !.times = Counted(@, <<"received", sendIdx>>)]
    /\ UNCHANGED <<optVars, mapperInputFiles, stdin, fs, pcMain, wg, mapperWorkClosed,
                   partitionsClosed, rw, mainEmit, mrjob, stderr, stdout, pureVars>>

\* close(mapperWork)
CloseMapperWork ==
    /\ steps' = steps + 1
    /\ pcMain = "send"
    /\ sendIdx = Len(mapperInputFiles)
    /\ mapperWorkClosed' = TRUE
    /\ pcMain' = "wait_map"
    /\ UNCHANGED <<optVars, mapperInputFiles, stdin, fs, sendIdx, wg,
                   partitionsClosed, mw, rw, mainEmit, mrjob, stderr, stdout, hist,
                   pureVars>>

\* os.Open(input.fname): on failure the error is logged and the goroutine
\* returns (wg.Done is not reached); else the emitter is made.
MapWorkerOpen(w) ==
    /\ steps' = steps + 1
    /\ ~Stopped
    /\ mw[w].pc = "open"
    /\ IF InputName(mw[w].index) \in DOMAIN fs
       THEN /\ mw' = [mw EXCEPT
                        ![w].pc = "read",
                        ![w].br = fs[InputName(mw[w].index)],
                        ![w].mEmit = newPartitionEmitter(optNumPartitions,
                                                         MapOutTemplate(mw[w].index))]
            /\ hist' = [hist EXCEPT !.mapped = @ \cup {[index |-> mw[w].index, worker |-> w]},
                                    !.times = Counted(@, <<"mapped", mw[w].index>>)]
            /\ UNCHANGED stderr
       ELSE /\ mw' = [mw EXCEPT ![w] = [NoMapWorker EXCEPT !.pc = "returned"]]
            /\ stderr' = Append(stderr, Msg("err opening", mw[w].index))
            /\ hist' = [hist EXCEPT !.openFailed = @ \cup {mw[w].index}]
    /\ UNCHANGED <<optVars, mapperInputFiles, stdin, fs, pcMain, sendIdx, wg,
                   mapperWorkClosed, partitionsClosed, rw, mainEmit, mrjob, stdout,
                   pureVars>>

\* mapper's loop: readLineValue; at a failed read the file is done, else
\* Map starts on the line's words.
MapWorkerReadLine(w) ==
    /\ steps' = steps + 1
    /\ ~Stopped
    /\ mw[w].pc = "read"
    /\ LET r == readLineValue(mw[w].br) IN
       IF r.err
       THEN mw' = [mw EXCEPT ![w].pc = "finish", ![w].br = r.rest]
       ELSE LET words == MapWords(r.kv.Value) IN
            mw' = [mw EXCEPT ![w].br = r.rest,
                             ![w].words = words,
                             ![w].pc = IF words = << >> THEN "read" ELSE "incr"]
    /\ UNCHANGED <<optVars, mapperInputFiles, stdin, fs, pcMain, sendIdx, wg,
                   mapperWorkClosed, partitionsClosed, rw, mainEmit, mrjob, stderr,
                   stdout, hist, pureVars>>

\* mr.mappedWords++ on the job all workers share, first half: the load.
MapWorkerLoadCounter(w) ==
    /\ steps' = steps + 1
    /\ ~Stopped
    /\ mw[w].pc = "incr"
    /\ mw' = [mw EXCEPT ![w].tmp = mrjob.mappedWords, ![w].pc = "emit"]
    /\ UNCHANGED <<optVars, mapperInputFiles, stdin, fs, pcMain, sendIdx, wg,
                   mapperWorkClosed, partitionsClosed, rw, mainEmit, mrjob, stderr,
                   stdout, hist, pureVars>>

\* Second half: the store, and emitter.Emit(word, "1").
MapWorkerStoreEmit(w) ==
    /\ steps' = steps + 1
    /\ ~Stopped
    /\ mw[w].pc = "emit"
    /\ LET kv == MarshalKV(Head(mw[w].words), 1)
           r == partitionEmitterEmit(mw[w].mEmit, fs, kv.Key, kv.Value, TRUE)
       IN /\ mw' = [mw EXCEPT ![w].mEmit = r.e,
                              ![w].words = Tail(@),
                              ![w].tmp = 0,
                              ![w].pc = IF Len(mw[w].words) = 1 THEN "read" ELSE "incr"]
          /\ fs' = r.fs
          /\ hist' = [hist EXCEPT !.created = @ \cup NewFiles(fs, r.fs)]
    /\ mrjob' = [mrjob EXCEPT !.mappedWords = mw[w].tmp + 1]
    /\ UNCHANGED <<optVars, mapperInputFiles, stdin, pcMain, sendIdx, wg,
                   mapperWorkClosed, partitionsClosed, rw, mainEmit, stderr, stdout,
                   pureVars>>

\* mEmit.Flush(); mEmit.Close(); f.Close(); and back to the range loop.
MapWorkerFinish(w) ==
    /\ steps' = steps + 1
    /\ ~Stopped
    /\ mw[w].pc = "finish"
    /\ fs' = partitionEmitterFlush(mw[w].mEmit, fs).fs
    /\ mw' = [mw EXCEPT ![w] = NoMapWorker]
    /\ UNCHANGED <<optVars, mapperInputFiles, stdin, pcMain, sendIdx, wg,
                   mapperWorkClosed, partitionsClosed, rw, mainEmit, mrjob, stderr,
                   stdout, hist, pureVars>>

\* The range loop ends on the closed channel: wg.Done().
MapWorkerExit(w) ==
    /\ steps' = steps + 1
    /\ ~Stopped
    /\ mw[w].pc = "recv"
    /\ mapperWorkClosed
    /\ mw' = [mw EXCEPT ![w].pc = "done"]
    /\ wg' = WaitGroupDone(wg)
    /\ UNCHANGED <<optVars, mapperInputFiles, stdin, fs, pcMain, sendIdx,
                   mapperWorkClosed, partitionsClosed, rw, mainEmit, mrjob, stderr,
                   stdout, hist, pureVars>>

\* wg.Wait() returns.
WaitMappers ==
    /\ steps' = steps + 1
    /\ pcMain = "wait_map"
    /\ MapBarrierPassed(wg)
    /\ pcMain' = "map_final"
    /\ UNCHANGED <<optVars, mapperInputFiles, stdin, fs, sendIdx, wg, mapperWorkClosed,
                   partitionsClosed, mw, rw, mainEmit, mrjob, stderr, stdout, hist,
                   pureVars>>

\* mapper_final through a new emitter whose index is len(mapperInputFiles),
\* then Flush and Close.
MapperFinal ==
    /\ steps' = steps + 1
    /\ pcMain = "map_final"
    /\ LET e == newPartitionEmitter(optNumPartitions,
                                    MapOutTemplate(MapFinalIndex(mapperInputFiles)))
           r == partitionEmitterFlush(e, fs)
       IN /\ mainEmit' = partitionEmitterClose(r.e)
          /\ fs' = r.fs
          /\ hist' = [hist EXCEPT !.mapFinal = Append(@, MapFinalCall(e))]
    /\ stderr' = MapFinalReport(stderr, mrjob)
    /\ pcMain' = "spawn_reducers"
    /\ UNCHANGED <<optVars, mapperInputFiles, stdin, sendIdx, wg, mapperWorkClosed,
                   partitionsClosed, mw, rw, mrjob, stdout, pureVars>>

\* ------------------------------------------------------------------------
\* Reduce stage: optNumReducers goroutines on an unbuffered channel
\* ------------------------------------------------------------------------

SpawnReducers ==
    /\ steps' = steps + 1
    /\ pcMain = "spawn_reducers"
    /\ wg' = wg + Cardinality(DOMAIN rw)
    /\ sendIdx' = 0
    /\ pcMain' = "send_part"
    /\ UNCHANGED <<optVars, mapperInputFiles, stdin, fs, mapperWorkClosed,
                   partitionsClosed, mw, rw, mainEmit, mrjob, stderr, stdout, hist,
                   pureVars>>

\* partitions <- i, received by worker w in its range loop.
SendPartition(w) ==
    /\ steps' = steps + 1
    /\ pcMain = "send_part"
    /\ sendIdx < optNumPartitions
    /\ rw[w].pc = "recv"
    /\ rw' = [rw EXCEPT ![w].pc = "glob", ![w].partition = sendIdx]
    /\ sendIdx' = NextWorkItem(sendIdx)
    /\ hist' = [hist EXCEPT !.times = Counted(@, <<"partition", sendIdx>>)]
    /\ UNCHANGED <<optVars, mapperInputFiles, stdin, fs, pcMain, wg, mapperWorkClosed,
                   partitionsClosed, mw, mainEmit, mrjob, stderr, stdout, pureVars>>

\* close(partitions)
ClosePartitions ==
    /\ steps' = steps + 1
    /\ pcMain = "send_part"
    /\ sendIdx = optNumPartitions
    /\ partitionsClosed' = TRUE
    /\ pcMain' = "wait_reduce"
    /\ UNCHANGED <<optVars, mapperInputFiles, stdin, fs, sendIdx, wg, mapperWorkClosed,
                   mw, rw, mainEmit, mrjob, stderr, stdout, hist, pureVars>>

\* The lines of the named files, file after file.
RECURSIVE LinesOfFiles(_, _)
LinesOfFiles(fsys, names) ==
    IF names = {} THEN << >>
    ELSE LET n == CHOOSE x \in names : TRUE IN
         SplitLines(fsys[n]) \o LinesOfFiles(fsys, names \ {n})

\* filepath.Glob, then os.StartProcess("/usr/bin/sort", ...). A failed
\* launch is logged and leaves p nil; p.Wait() then dereferences nil and the
\* panic ends the process.
ReduceWorkerStartSort(w) ==
    /\ steps' = steps + 1
    /\ ~Stopped
    /\ rw[w].pc = "glob"
    /\ \E launched \in BOOLEAN :
         IF launched
         THEN /\ rw' = [rw EXCEPT ![w].pc = AfterStartProcess,
                                  ![w].fns = Glob(fs, rw[w].partition)]
              /\ hist' = [hist EXCEPT !.sortInput =
                            [q \in DOMAIN @ \cup {rw[w].partition} |->
                                IF q = rw[w].partition
                                THEN LinesOfFiles(fs, Glob(fs, rw[w].partition))
                                ELSE @[q]],
                                      !.times = Counted(@, <<"sorted", rw[w].partition>>)]
              /\ UNCHANGED <<stderr, pcMain>>
         ELSE /\ rw' = [rw EXCEPT ![w].pc = "panicked",
                                  ![w].fns = Glob(fs, rw[w].partition)]
              /\ stderr' = Append(stderr, Msg("err running sort", rw[w].partition))
              /\ pcMain' = "crashed"
              /\ hist' = [hist EXCEPT !.launchFailed = @ \cup {rw[w].partition}]
    /\ UNCHANGED <<optVars, mapperInputFiles, stdin, fs, sendIdx, wg, mapperWorkClosed,
                   partitionsClosed, mw, mainEmit, mrjob, stdout, pureVars>>

\* What sort leaves behind: on success the sorted lines of its input files
\* in redin; on failure no redin, or an empty one. p.Wait() returns either
\* way and the exit status is not looked at.
SortOutcomes == {"ok", "failed", "failed, output created"}

ReduceWorkerSortExit(w) ==
    /\ steps' = steps + 1
    /\ ~Stopped
    /\ rw[w].pc = "sorting"
    /\ \E outcome \in SortOutcomes :
         LET redin == RedInName(rw[w].partition) IN
         /\ fs' = IF outcome = "ok"
                  THEN FsWrite(FsCreate(fs, redin), redin,
                               JoinLines(SortLines(LinesOfFiles(fs, rw[w].fns))))
                  ELSE IF outcome = "failed" THEN fs
                  ELSE FsCreate(fs, redin)
         /\ hist' = [hist EXCEPT
                        !.created = @ \cup NewFiles(fs, fs'),
                        !.sortExited = @ \cup {rw[w].partition},
                        !.sortFailed = IF outcome = "ok" THEN @
                                       ELSE @ \cup {rw[w].partition}]
    /\ rw' = [rw EXCEPT ![w].pc = "reduce"]
    /\ UNCHANGED <<optVars, mapperInputFiles, stdin, pcMain, sendIdx, wg,
                   mapperWorkClosed, partitionsClosed, mw, mainEmit, mrjob, stderr,
                   stdout, pureVars>>

\* os.Open(redin) with the error dropped: reads of a file that is not there
\* fail at once.
OpenOrNil(fsys, name) == IF name \in DOMAIN fsys THEN fsys[name] ELSE EmptyString

\* os.Open(redin); os.Create(red-out); reducer into the buffered emitter.
ReduceWorkerReduce(w) ==
    /\ steps' = steps + 1
    /\ ~Stopped
    /\ rw[w].pc = "reduce"
    /\ fs' = FsCreate(fs, RedOutName(rw[w].partition))
    /\ rw' = [rw EXCEPT
                ![w].pc = "remove",
                ![w].w = EmitReduceCalls(EmptyString,
                             reducer(OpenOrNil(fs, RedInName(rw[w].partition))))]
    /\ hist' = [hist EXCEPT !.reduced = @ \cup {rw[w].partition},
                            !.times = Counted(@, <<"reduced", rw[w].partition>>)]
    /\ UNCHANGED <<optVars, mapperInputFiles, stdin, pcMain, sendIdx, wg,
                   mapperWorkClosed, partitionsClosed, mw, mainEmit, mrjob, stderr,
                   stdout, pureVars>>

\* A removal set that leaves the sorted file behind.
RemovedByReduce_ForgetsRedin(fns, redin) == fns

\* for fn in fns { os.Remove(fn) }; os.Remove(redin)
RemovedByReduce(fns, redin) == fns \cup {redin}

ReduceWorkerRemove(w) ==
    /\ steps' = steps + 1
    /\ ~Stopped
    /\ rw[w].pc = "remove"
    /\ fs' = FsRemove(fs, RemovedByReduce(rw[w].fns, RedInName(rw[w].partition)))
    /\ rw' = [rw EXCEPT ![w].pc = "flush"]
    /\ UNCHANGED <<optVars, mapperInputFiles, stdin, pcMain, sendIdx, wg,
                   mapperWorkClosed, partitionsClosed, mw, mainEmit, mrjob, stderr,
                   stdout, hist, pureVars>>

\* rEmit.Flush(); rout.Close(); and back to the range loop.
ReduceWorkerFlushClose(w) ==
    /\ steps' = steps + 1
    /\ ~Stopped
    /\ rw[w].pc = "flush"
    /\ fs' = FsWrite(fs, RedOutName(rw[w].partition), rw[w].w)
    /\ rw' = [rw EXCEPT ![w] = NoReduceWorker]
    /\ hist' = [hist EXCEPT !.closed = @ \cup {rw[w].partition}]
    /\ UNCHANGED <<optVars, mapperInputFiles, stdin, pcMain, sendIdx, wg,
                   mapperWorkClosed, partitionsClosed, mw, mainEmit, mrjob, stderr,
                   stdout, pureVars>>

\* The range loop ends on the closed channel: wg.Done().
ReduceWorkerExit(w) ==
    /\ steps' = steps + 1
    /\ ~Stopped
    /\ rw[w].pc = "recv"
    /\ partitionsClosed
    /\ rw' = [rw EXCEPT ![w].pc = "done"]
    /\ wg' = WaitGroupDone(wg)
    /\ UNCHANGED <<optVars, mapperInputFiles, stdin, fs, pcMain, sendIdx,
                   mapperWorkClosed, partitionsClosed, mw, mainEmit, mrjob, stderr,
                   stdout, hist, pureVars>>

\* wg.Wait() returns and the output file names are printed.
ReportCompletion ==
    /\ steps' = steps + 1
    /\ pcMain = "wait_reduce"
    /\ ReduceBarrierPassed(wg)
    /\ stdout' = Append(stdout, [first |-> RedOutName(0),
                                 last |-> RedOutName(optNumPartitions - 1)])
    /\ pcMain' = "done"
    /\ UNCHANGED <<optVars, mapperInputFiles, stdin, fs, sendIdx, wg, mapperWorkClosed,
                   partitionsClosed, mw, rw, mainEmit, mrjob, stderr, hist,
                   pureVars>>

\* The main goroutine is blocked (a send nobody will receive, or a Wait
\* whose count nobody will lower) and no other goroutine can run: the Go
\* run time ends the process ("all goroutines are asleep - deadlock!").
MapWorkersGone == \A w \in DOMAIN mw : mw[w].pc \in {"returned", "done"}
MapWorkersReturned == \A w \in DOMAIN mw : mw[w].pc = "returned"
ReduceWorkersGone == \A w \in DOMAIN rw : rw[w].pc = "done"

MainBlockedForever ==
    \/ pcMain = "send" /\ sendIdx < Len(mapperInputFiles) /\ MapWorkersReturned
    \/ pcMain = "wait_map" /\ wg > 0 /\ MapWorkersGone
    \/ pcMain = "send_part" /\ sendIdx < optNumPartitions /\ DOMAIN rw = {}
    \/ pcMain = "wait_reduce" /\ wg > 0 /\ ReduceWorkersGone

RuntimeDeadlock ==
    /\ steps' = steps + 1
    /\ MainBlockedForever
    /\ pcMain' = "fatal_deadlock"
    /\ UNCHANGED <<optVars, mapperInputFiles, stdin, fs, sendIdx, wg, mapperWorkClosed,
                   partitionsClosed, mw, rw, mainEmit, mrjob, stderr, stdout, hist,
                   pureVars>>

Next ==
    \/ StdinMapper
    \/ StdinMapperFinal
    \/ StdinFlushClose
    \/ SpawnMappers
    \/ \E w \in DOMAIN mw : SendMapWork(w)
    \/ CloseMapperWork
    \/ \E w \in DOMAIN mw : MapWorkerOpen(w)
    \/ \E w \in DOMAIN mw : MapWorkerReadLine(w)
    \/ \E w \in DOMAIN mw : MapWorkerLoadCounter(w)
    \/ \E w \in DOMAIN mw : MapWorkerStoreEmit(w)
    \/ \E w \in DOMAIN mw : MapWorkerFinish(w)
    \/ \E w \in DOMAIN mw : MapWorkerExit(w)
    \/ WaitMappers
    \/ MapperFinal
    \/ SpawnReducers
    \/ \E w \in DOMAIN rw : SendPartition(w)
    \/ ClosePartitions
    \/ \E w \in DOMAIN rw : ReduceWorkerStartSort(w)
    \/ \E w \in DOMAIN rw : ReduceWorkerSortExit(w)
    \/ \E w \in DOMAIN rw : ReduceWorkerReduce(w)
    \/ \E w \in DOMAIN rw : ReduceWorkerRemove(w)
    \/ \E w \in DOMAIN rw : ReduceWorkerFlushClose(w)
    \/ \E w \in DOMAIN rw : ReduceWorkerExit(w)
    \/ ReportCompletion
    \/ RuntimeDeadlock

Spec == Init /\ [][Next]_vars

\* ------------------------------------------------------------------------
\* Properties of the standalone run
\* ------------------------------------------------------------------------

Partitions == 0..(optNumPartitions - 1)

\* The input lines of the run in input order: stdin's, or those of the
\* input files.
RECURSIVE InputValuesFrom(_)
InputValuesFrom(i) ==
    IF i >= Len(mapperInputFiles) THEN << >>
    ELSE mapper(OpenOrNil(fs, InputName(i))) \o InputValuesFrom(i + 1)

InputValues ==
    IF mapperInputFiles = <<<<"(stdin)">>>> THEN mapper(hist.stdin0)
    ELSE InputValuesFrom(0)

\* The text a sequence of records makes on the wire, those of partition p
\* only.
RECURSIVE WireOfPartition(_, _)
WireOfPartition(kvs, p) ==
    IF kvs = << >> THEN EmptyString
    ELSE (IF partitionOf(Head(kvs).Key, optNumPartitions) = p
          THEN printEmitterEmit(EmptyString, Head(kvs).Key, Head(kvs).Value)
          ELSE EmptyString) \o WireOfPartition(Tail(kvs), p)

\* One worker's run, one file after the other: map, partition, sort,
\* reduce.
SequentialOutput(p) ==
    EmitReduceCalls(EmptyString,
        reducer(JoinLines(SortLines(SplitLines(
            WireOfPartition(MapRecords(InputValues), p))))))

Completed == pcMain = "done" /\ hist.sortFailed = {}

\* C4: when a standalone run completes (every sort having succeeded), every
\* red-out partition file holds what one worker mapping the input files one
\* after the other would have produced, whatever the number of map workers
\* and however their steps interleaved.
C4_OutputIndependentOfMappers ==
    Completed =>
        \A p \in Partitions :
            /\ RedOutName(p) \in DOMAIN fs
            /\ fs[RedOutName(p)] = SequentialOutput(p)

\* A completed run over two input files that two different workers mapped.
C4_Witness ==
    /\ Completed
    /\ optNumMappers = 2
    /\ \E a \in hist.mapped : \E b \in hist.mapped :
          a.index # b.index /\ a.worker # b.worker

\* The records of a reduced output file.
RECURSIVE ParseRecords(_)
ParseRecords(bytes) ==
    LET r == readLineKeyValue(bytes) IN
    IF r.err THEN << >> ELSE <<r.kv>> \o ParseRecords(r.rest)

RECURSIVE OutputRecordsFrom(_)
OutputRecordsFrom(p) ==
    IF p >= optNumPartitions THEN << >>
    ELSE ParseRecords(OpenOrNil(fs, RedOutName(p))) \o OutputRecordsFrom(p + 1)

InputWords == Flatten([i \in 1..Len(InputValues) |-> MapWords(InputValues[i])])

Occurrences(word) == Cardinality({i \in 1..Len(InputWords) : InputWords[i] = word})

\* C5: when a standalone word-count run completes (every sort having
\* succeeded), the records of all red-out files together are exactly one
\* (word, count) per distinct word of the input, count being the number of
\* occurrences, and nothing else.
C5_WordCountExact ==
    Completed =>
        LET out == OutputRecordsFrom(0)
            distinct == {InputWords[i] : i \in 1..Len(InputWords)}
        IN /\ Len(out) = Cardinality(distinct)
           /\ \A word \in distinct :
                 \E i \in 1..Len(out) : out[i] = KeyValue(word, Itoa(Occurrences(word)))

\* C6: when the run has printed the output file names, no tmp-map-out and
\* no tmp-red-in file is left in the file system.
C6_NoTemporaryLeft ==
    pcMain = "done" =>
        /\ stdout # << >>
        /\ \A n \in DOMAIN fs : ~IsMapOut(n) /\ ~IsRedIn(n)

\* A reported run that had created temporary files of both kinds.
C6_Witness ==
    /\ pcMain = "done"
    /\ \E n \in hist.created : IsMapOut(n)
    /\ \E n \in hist.created : IsRedIn(n)

FileIndexes == 0..(Len(mapperInputFiles) - 1)

\* C9: with at least one map worker, once the process has ended after an
\* input file failed to open, the failure is in the log and every other
\* input file has been mapped by some worker.
C9_OpenFailureAbandonsOneItem ==
    (Stopped /\ optNumMappers >= 1 /\ hist.openFailed # {}) =>
        /\ \A i \in hist.openFailed :
              \E k \in 1..Len(stderr) : stderr[k] = Msg("err opening", i)
        /\ \A i \in FileIndexes \ hist.openFailed :
              \E m \in hist.mapped : m.index = i

\* C10: once the process has ended after the sort of some partition could
\* not be launched or failed, the run has reached the completion report and
\* every partition's output file is there.
C10_SortFailureNotFatal ==
    (Stopped /\ (hist.launchFailed \cup hist.sortFailed) # {}) =>
        /\ pcMain = "done"
        /\ \A p \in Partitions : RedOutName(p) \in DOMAIN fs

\* C11: the completion report is printed only when every partition
\* 0 .. optNumPartitions-1 has had its red-out file created, flushed and
\* closed by a reduce worker, and it names exactly the first and the last
\* of these files.
C11_ReportAfterAllPartitions ==
    stdout # << >> =>
        /\ hist.closed = Partitions
        /\ \A p \in Partitions : RedOutName(p) \in DOMAIN fs
        /\ stdout = <<[first |-> RedOutName(0),
                       last |-> RedOutName(optNumPartitions - 1)]>>

\* A reported run of two partitions that two reduce workers shared.
C11_Witness ==
    /\ stdout # << >>
    /\ optNumPartitions = 2
    /\ optNumReducers = 2
    /\ hist.closed = {0, 1}

\* C12: no two map workers are inside a Map call at the same time on the
\* same job instance.
C12_OwnJobInstance ==
    \A a \in DOMAIN mw : \A b \in DOMAIN mw :
        (a # b /\ InMap(a) /\ InMap(b)) => JobInstanceOf(a) # JobInstanceOf(b)

StdinMode == mapperInputFiles \in {<< >>, <<<<"(stdin)">>>>}

\* A reduce worker has globbed the map output of some partition or gone
\* further.
ShuffleBegun ==
    \/ \E w \in DOMAIN rw : rw[w].pc \in {AfterStartProcess, "reduce", "remove", "flush",
                                         "panicked"}
    \/ hist.sortInput # << >>
    \/ hist.launchFailed # {}

EmitterFlushedAndClosed(e) ==
    /\ e # Idle
    /\ \A p \in DOMAIN e.emitters :
          e.emitters[p].nil \/ (e.emitters[p].w = EmptyString /\ e.fds[p].closed)

MapStageComplete ==
    /\ \A w \in DOMAIN mw : mw[w].pc \notin {"open", "read", "incr", "emit", "finish"}
    /\ StdinMode \/ \A w \in DOMAIN mw : mw[w].pc = "done"
    /\ Len(hist.mapFinal) = 1
    /\ EmitterFlushedAndClosed(mainEmit)

\* C13: whenever the shuffle of some partition has begun, every map worker
\* has finished its Map calls and closed its emitter, and MapFinal has run
\* and its emitter has been flushed and closed.
C13_MapStageBeforeShuffle == ShuffleBegun => MapStageComplete

\* A shuffle begun after two map workers mapped a file each.
C13_Witness ==
    /\ ShuffleBegun
    /\ \E a \in hist.mapped : \E b \in hist.mapped : a.worker # b.worker

\* C14: a reduce worker that is at or past the opening of the sorted file
\* of its partition has seen that partition's sort process exit, and a sort
\* that has exited had been started.
C14_ReduceAfterSortExit ==
    /\ \A w \in DOMAIN rw :
          rw[w].pc \in {"reduce", "remove", "flush"} => rw[w].partition \in hist.sortExited
    /\ hist.reduced \subseteq hist.sortExited
    /\ hist.sortExited \subseteq DOMAIN hist.sortInput

\* A reduce worker past its reducer call.
C14_Witness ==
    \E w \in DOMAIN rw : rw[w].pc = "remove" /\ rw[w].partition \in hist.reduced

PastMapStage == pcMain \in {"spawn_reducers", "send_part", "wait_reduce", "done"}

\* The emitter the stdin pass leaves behind.
StdinMapperEmitter ==
    EmitAllPartitioned(newPartitionEmitter(optNumPartitions, MapOutTemplate(0)),
                       << >>, MapRecords(mapper(hist.stdin0))).e

Runnable ==
    \/ pcMain \in {"start", "stdin_final", "stdin_close", "map_final", "spawn_reducers"}
    \/ pcMain = "send" /\ sendIdx < Len(mapperInputFiles)
                       /\ \E w \in DOMAIN mw : mw[w].pc = "recv"
    \/ pcMain = "send" /\ sendIdx = Len(mapperInputFiles)
    \/ ~Stopped /\ \E w \in DOMAIN mw : mw[w].pc \in {"open", "read", "incr", "emit", "finish"}
    \/ ~Stopped /\ mapperWorkClosed /\ \E w \in DOMAIN mw : mw[w].pc = "recv"
    \/ pcMain = "wait_map" /\ MapBarrierPassed(wg)
    \/ pcMain = "send_part" /\ sendIdx < optNumPartitions
                            /\ \E w \in DOMAIN rw : rw[w].pc = "recv"
    \/ pcMain = "send_part" /\ sendIdx = optNumPartitions
    \/ ~Stopped /\ \E w \in DOMAIN rw :
                      rw[w].pc \in {"glob", "sorting", "reduce", "remove", "flush"}
    \/ ~Stopped /\ partitionsClosed /\ \E w \in DOMAIN rw : rw[w].pc = "recv"
    \/ pcMain = "wait_reduce" /\ ReduceBarrierPassed(wg)
    \/ MainBlockedForever

\* A step of the run when some goroutine can take one. Every action of Next
\* counts its step in steps, so the steps of Scheduled are the steps of
\* Next.
Scheduled == Runnable /\ steps' = steps + 1

\* While some goroutine can take a step, the scheduler eventually runs one.
FairSpec == Spec /\ WF_steps(Scheduled)

AllOpenable == StdinMode \/ \A i \in FileIndexes : InputName(i) \in DOMAIN fs

Reported == pcMain = "done" /\ stdout # << >>

\* C16: with at least one map worker and one reduce worker and every input
\* file openable, a run in which every sort process is launched eventually
\* prints the completion report.
C16_Terminates ==
    (optNumMappers >= 1 /\ optNumReducers >= 1 /\ AllOpenable)
        ~> (Reported \/ hist.launchFailed # {})

\* A reported run of two map workers, two reduce workers and two files.
C16_Witness ==
    /\ Reported
    /\ optNumMappers = 2
    /\ optNumReducers = 2
    /\ Len(mapperInputFiles) = 2
    /\ ~StdinMode

\* C17: after an input file failed to open (workers of both kinds being
\* there), MapFinal eventually runs and the run eventually prints the
\* completion report, unless a sort cannot be launched.
C17_OpenFailureStillFinishes ==
    (hist.openFailed # {} /\ optNumMappers >= 1 /\ optNumReducers >= 1)
        ~> ((Len(hist.mapFinal) = 1 /\ Reported) \/ hist.launchFailed # {})

\* ------------------------------------------------------------------------
\* Stages without workers, routing and conservation
\* ------------------------------------------------------------------------

\* C18: with input files and no map worker the coordinator never gets past
\* its first send: no file is handed out or mapped, MapFinal does not run
\* and nothing is reported; with no reduce worker no partition is handed
\* out, sorted or reduced and nothing is reported.
C18_NoWorkersBlocks ==
    /\ (~StdinMode /\ optNumMappers <= 0) =>
          /\ pcMain \in {"start", "send", "fatal_deadlock"}
          /\ sendIdx = 0
          /\ hist.mapped = {} /\ hist.openFailed = {}
          /\ hist.mapFinal = << >>
          /\ stdout = << >>
    /\ optNumReducers <= 0 =>
          /\ pcMain # "done"
          /\ pcMain = "send_part" => sendIdx = 0
          /\ hist.sortInput = << >> /\ hist.launchFailed = {} /\ hist.reduced = {}
          /\ stdout = << >>

\* The coordinator blocked on the first send of two input files, no map
\* worker being there.
C18_Witness ==
    /\ pcMain = "fatal_deadlock"
    /\ ~StdinMode
    /\ Len(mapperInputFiles) = 2
    /\ optNumMappers = 0

\* The partition index of a key under the run's partition count.
KeyPartition(key) ==
    IF optNumPartitions > 1 THEN adler32Checksum(key) % optNumPartitions ELSE 0

\* Every record of the text has a key of partition p.
RecordsRouted(bytes, p) ==
    \A i \in 1..Len(ParseRecords(bytes)) :
        KeyPartition(ParseRecords(bytes)[i].Key) = p

\* The sinks of a partitioned emitter hold records of their partition.
BuffersRouted(e) ==
    e = Idle \/ \A p \in DOMAIN e.emitters : RecordsRouted(e.emitters[p].w, p)

\* C19: every record in a tmp-map-out file of suffix p, in the buffer of an
\* emitter's sink p, or among the lines handed to the sort of partition p,
\* has a key whose partition index under optNumPartitions is p.
C19_RoutingInvariant ==
    /\ \A n \in DOMAIN fs : IsMapOut(n) => RecordsRouted(fs[n], n[3])
    /\ \A w \in DOMAIN mw : BuffersRouted(mw[w].mEmit)
    /\ BuffersRouted(mainEmit)
    /\ \A p \in DOMAIN hist.sortInput : RecordsRouted(JoinLines(hist.sortInput[p]), p)

\* The sort of partition 1 was handed records while a map-out file of
\* partition 0 is there.
C19_Witness ==
    /\ 1 \in DOMAIN hist.sortInput
    /\ hist.sortInput[1] # << >>
    /\ \E n \in DOMAIN fs : IsMapOut(n) /\ n[3] = 0 /\ fs[n] # EmptyString

\* C20: the lines handed to the sort of partition p are, as a multiset, the
\* records that the Map calls of the run emitted with a key of partition p
\* (the word-count MapFinal emits none).
C20_Conservation ==
    \A p \in DOMAIN hist.sortInput :
        SortLines(hist.sortInput[p]) =
            SortLines(SplitLines(WireOfPartition(MapRecords(InputValues), p)))

\* The sorts of two partitions were handed the output of two map workers.
C20_Witness ==
    /\ DOMAIN hist.sortInput = {0, 1}
    /\ hist.sortInput[0] # << >> /\ hist.sortInput[1] # << >>
    /\ \E a \in hist.mapped : \E b \in hist.mapped : a.worker # b.worker

\* How often the event k happened in the run so far.
Times(k) == IF k \in DOMAIN hist.times THEN hist.times[k] ELSE 0

\* The map workers holding the work item of index i, and the reduce workers
\* holding partition p.
MapHolders(i) == {w \in DOMAIN mw : mw[w].index = i}
ReduceHolders(p) == {w \in DOMAIN rw : rw[w].partition = p}

FilesBeingMapped ==
    {mw[w].index : w \in {v \in DOMAIN mw :
                             mw[v].pc \in {"open", "read", "incr", "emit", "finish"}}}

\* The partitions being shuffled or reduced: received by a reduce worker
\* that has not yet flushed and closed the partition's output.
PartitionsInReduce ==
    {rw[w].partition : w \in {v \in DOMAIN rw :
                                 rw[v].pc \in {"glob", AfterStartProcess, "reduce",
                                               "remove", "flush"}}}

\* C22: at any moment at most optNumMappers input files are being mapped
\* and at most optNumReducers partitions are being shuffled or reduced.
C22_BoundedParallelism ==
    /\ Cardinality(FilesBeingMapped) <= optNumMappers
    /\ Cardinality(PartitionsInReduce) <= optNumReducers

\* One map worker and two input files: the first file is being mapped
\* while the second waits to be sent; and likewise one reduce worker with
\* two partitions.
C22_Witness ==
    \/ /\ optNumMappers = 1 /\ Len(mapperInputFiles) = 2
       /\ pcMain = "send" /\ sendIdx = 1
       /\ FilesBeingMapped = {0}
       /\ \E w \in DOMAIN mw : mw[w].pc = "emit"
    \/ /\ optNumReducers = 1 /\ optNumPartitions = 2
       /\ pcMain = "send_part" /\ sendIdx = 1
       /\ PartitionsInReduce = {0}
       /\ \E w \in DOMAIN rw : rw[w].pc = "reduce"

\* The file names a partitioned emitter has open for writing.
OpenNames(e) ==
    IF e = Idle THEN {}
    ELSE {e.fds[p].name : p \in {q \in DOMAIN e.fds : ~e.fds[q].nil /\ ~e.fds[q].closed}}

\* The file names a partitioned emitter can come to open.
NameSpace(e) ==
    IF e = Idle THEN {}
    ELSE {PartitionFileName(e.fileNameTemplate, p) : p \in DOMAIN e.fds}

\* The file names a reduce worker has open for writing: the sort it waits
\* for writes redin, and red-out is open from os.Create to rout.Close().
ReduceOpenNames(w) ==
    (IF rw[w].pc = AfterStartProcess THEN {RedInName(rw[w].partition)} ELSE {})
       \cup (IF rw[w].pc \in {"remove", "flush"} THEN {RedOutName(rw[w].partition)} ELSE {})

\* C23: the writers that exist at the same time have no file name in
\* common, neither among the names they have open nor among those their
\* emitters can come to open: a map worker's emitter is named by the index
\* of its work item, the emitter of the MapFinal step after the map stage
\* by the number of input files, which is no work item's index, and a
\* reduce worker's files by its partition.
C23_NoNameCollision ==
    /\ \A a \in DOMAIN mw : \A b \in DOMAIN mw :
          a # b => /\ OpenNames(mw[a].mEmit) \cap OpenNames(mw[b].mEmit) = {}
                   /\ NameSpace(mw[a].mEmit) \cap NameSpace(mw[b].mEmit) = {}
    /\ \A a \in DOMAIN mw :
          /\ mw[a].mEmit # Idle =>
                mw[a].mEmit.fileNameTemplate = MapOutTemplate(mw[a].index)
          /\ NameSpace(mw[a].mEmit) \cap NameSpace(mainEmit) = {}
          /\ \A b \in DOMAIN rw : OpenNames(mw[a].mEmit) \cap ReduceOpenNames(b) = {}
    /\ \A a \in DOMAIN rw :
          /\ OpenNames(mainEmit) \cap ReduceOpenNames(a) = {}
          /\ \A b \in DOMAIN rw : a # b => ReduceOpenNames(a) \cap ReduceOpenNames(b) = {}
    /\ ~StdinMode =>
          \A k \in 1..Len(hist.mapFinal) :
             /\ hist.mapFinal[k].emitter.fileNameTemplate =
                   <<"tmp-map-out", Len(mapperInputFiles)>>
             /\ \A i \in FileIndexes :
                   NameSpace(hist.mapFinal[k].emitter)
                      \cap NameSpace(newPartitionEmitter(optNumPartitions,
                                                         MapOutTemplate(i))) = {}

\* Two reduce workers have the output files of two partitions open at the
\* same time, after two map workers had files open at the same time.
C23_Witness ==
    /\ \E a \in DOMAIN rw : \E b \in DOMAIN rw :
          /\ a # b
          /\ ReduceOpenNames(a) = {RedOutName(0)}
          /\ ReduceOpenNames(b) = {RedOutName(1)}
    /\ \E m \in hist.mapped : \E n \in hist.mapped : m.worker # n.worker
    /\ ~StdinMode /\ hist.mapFinal # << >>

\* How often the event k happened to the emitters so far.
PartTimes(k) == IF k \in DOMAIN part.times THEN part.times[k] ELSE 0

\* The number of records in a text of lines.
CountRecords(bytes) == Cardinality({k \in 1..Len(bytes) : bytes[k] = NL})

\* The name of the file of partition p of emitter instance i.
SinkName(i, p) == PartitionFileName(part.pe[i].fileNameTemplate, p)

\* The records of partition p of instance i that are in its file or still
\* in its buffer.
SinkRecords(i, p) ==
    CountRecords(part.pe[i].emitters[p].w)
       + (IF SinkName(i, p) \in DOMAIN part.fs THEN CountRecords(part.fs[SinkName(i, p)])
          ELSE 0)

\* C24: after any sequence of Emit, Flush and Close on an emitter, a
\* partition that received no Emit has no file, no handle, no sink and an
\* empty FileNames entry; a partition that received one has had its file
\* <template>.<partition> created exactly once, at the first Emit, under
\* the name in FileNames, and every record emitted to it since is in that
\* file or in its sink's buffer (the file was never created anew); no file
\* exists but those of partitions that received an Emit; and none of the
\* calls failed.
C24_LazySinks ==
    /\ ~part.panicked
    /\ \A i \in Emitters : \A p \in DOMAIN part.pe[i].emitters :
          LET e == part.pe[i] IN
          IF PartTimes(<<"emit", i, p>>) = 0
          THEN /\ e.FileNames[p] = NoName
               /\ e.fds[p] = NilFile
               /\ e.emitters[p] = NilEmitter
               /\ SinkName(i, p) \notin DOMAIN part.fs
               /\ PartTimes(<<"create", i, p>>) = 0
          ELSE /\ e.FileNames[p] = SinkName(i, p)
               /\ ~e.emitters[p].nil
               /\ PartTimes(<<"create", i, p>>) = 1
               /\ <<i, p>> \notin part.failed =>
                     /\ ~e.fds[p].nil
                     /\ e.fds[p].name = SinkName(i, p)
                     /\ SinkName(i, p) \in DOMAIN part.fs
                     /\ SinkRecords(i, p) = PartTimes(<<"emit", i, p>>)
    /\ \A n \in DOMAIN part.fs :
          \E i \in Emitters : \E p \in DOMAIN part.pe[i].emitters :
             n = SinkName(i, p) /\ PartTimes(<<"emit", i, p>>) > 0

\* An emitter with three partitions got two records for one partition,
\* both now in its file after a Flush and a Close, and none for another.
C24_Witness ==
    \E i \in Emitters : \E p, q \in DOMAIN part.pe[i].emitters :
       /\ part.pe[i].partitions = 3
       /\ p # q
       /\ PartTimes(<<"emit", i, p>>) = 2
       /\ SinkName(i, p) \in DOMAIN part.fs
       /\ CountRecords(part.fs[SinkName(i, p)]) = 2
       /\ part.pe[i].fds[p].closed
       /\ PartTimes(<<"emit", i, q>>) = 0

\* C25: a partition whose os.Create failed has a sink and a FileNames entry
\* but no handle and no file, whatever was emitted to it, flushed or closed
\* since; its file was tried exactly once; none of its records is in any
\* file; no Emit failed; and the partitions whose file was created have
\* all their records in their file or their buffer.
C25_CreateFailureSilent ==
    /\ ~part.panicked
    /\ \A x \in part.failed :
          LET i == x[1]
              p == x[2]
              e == part.pe[i]
          IN /\ ~e.emitters[p].nil
             /\ e.fds[p] = NilFile
             /\ e.FileNames[p] = SinkName(i, p)
             /\ SinkName(i, p) \notin DOMAIN part.fs
             /\ PartTimes(<<"create", i, p>>) = 1
             /\ CountRecords(e.emitters[p].w) = PartTimes(<<"emit", i, p>>)
    /\ \A i \in Emitters : \A p \in DOMAIN part.pe[i].emitters :
          (PartTimes(<<"emit", i, p>>) > 0 /\ <<i, p>> \notin part.failed) =>
             /\ SinkName(i, p) \in DOMAIN part.fs
             /\ SinkRecords(i, p) = PartTimes(<<"emit", i, p>>)
             /\ p \notin Flushable(part.pe[i]) =>
                   part.pe[i].fds[p].closed \/ part.pe[i].emitters[p].nil

\* The file of a partition could not be created; two records were emitted
\* to it, and one to another partition of the same emitter, whose file
\* holds it.
C25_Witness ==
    \E i \in Emitters : \E p, q \in DOMAIN part.pe[i].emitters :
       /\ <<i, p>> \in part.failed
       /\ PartTimes(<<"emit", i, p>>) = 2
       /\ p # q
       /\ <<i, q>> \notin part.failed
       /\ SinkName(i, q) \in DOMAIN part.fs
       /\ CountRecords(part.fs[SinkName(i, q)]) = 1

\* The positions of the NEWLINE bytes of a text, and the n-th of them.
NewlinesOf(bytes) == {k \in 1..Len(bytes) : bytes[k] = NL}
NthNewline(bytes, n) ==
    CHOOSE k \in NewlinesOf(bytes) : Cardinality({j \in NewlinesOf(bytes) : j <= k}) = n

\* The n-th newline-terminated line of a text, without its NEWLINE.
TerminatedLine(bytes, n) ==
    SubSeq(bytes, IF n = 1 THEN 1 ELSE NthNewline(bytes, n - 1) + 1,
           NthNewline(bytes, n) - 1)

\* C26: when mapper has returned in a --mapper run, the job calls made so
\* far are one Map call per NEWLINE of the input, in input order, the n-th
\* with the empty key and the bytes between the (n-1)-th and the n-th
\* NEWLINE as value; no MapFinal call is among them, the bytes after the
\* last NEWLINE were given to no call, and the input was read to its end.
C26_MapperCalls ==
    (mainv # Idle /\ mainv.pc = "mapper_final") =>
       /\ Len(mainv.calls) = Cardinality(NewlinesOf(mainv.stdin0))
       /\ \A n \in 1..Len(mainv.calls) :
             mainv.calls[n] = Call("Map", EmptyString, <<TerminatedLine(mainv.stdin0, n)>>)
       /\ mainv.stdin = EmptyString

\* mapper has returned from an input of two terminated lines followed by
\* an unterminated one: two Map calls.
C26_Witness ==
    /\ mainv # Idle /\ mainv.pc = "mapper_final"
    /\ mainv.stdin0 = <<UpperA, NL, ByteA, NL, ByteB>>
    /\ Len(mainv.calls) = 2

\* The positions of the calls of the given job operation.
CallsOf(calls, op) == {k \in 1..Len(calls) : calls[k].op = op}

\* C27: in a run with --mapper alone, the job calls are Map calls followed
\* by at most one MapFinal call, nothing is on stdout before Main's flush,
\* and once Main is at its flush or done there is exactly one MapFinal
\* call, the last call, after one Map call per input line; no Reduce call
\* is ever made. In a run with --reducer alone the calls are Reduce calls
\* only, and stdout stays empty until the flush that follows the last of
\* them, which writes what the Reduce calls emitted.
C27_StreamCallOrder ==
    (mainv # Idle /\ ~mainv.optDoMapReduce) =>
       /\ (mainv.optDoMap /\ ~mainv.optDoReduce) =>
             /\ CallsOf(mainv.calls, "Reduce") = {}
             /\ CallsOf(mainv.calls, "MapFinal") \subseteq {Len(mainv.calls)}
             /\ CallsOf(mainv.calls, "Map") \cup CallsOf(mainv.calls, "MapFinal")
                   = 1..Len(mainv.calls)
             /\ mainv.pc # "done" => mainv.stdout = EmptyString
             /\ mainv.pc \in {"start", "mapper"} => mainv.calls = << >>
             /\ mainv.pc \in {"flush", "done"} =>
                   /\ CallsOf(mainv.calls, "MapFinal") = {Len(mainv.calls)}
                   /\ Len(mainv.calls) = Cardinality(NewlinesOf(mainv.stdin0)) + 1
             /\ mainv.pc = "done" =>
                   /\ mainv.w = EmptyString
                   /\ mainv.stdout = EmitMapCalls(EmptyString, mapper(mainv.stdin0))
       /\ (~mainv.optDoMap /\ mainv.optDoReduce) =>
             /\ CallsOf(mainv.calls, "Reduce") = 1..Len(mainv.calls)
             /\ mainv.pc # "done" => mainv.stdout = EmptyString
             /\ mainv.pc \in {"start", "reducer"} => mainv.calls = << >>
             /\ mainv.pc \in {"flush", "done"} => mainv.calls # << >>
             /\ mainv.pc = "done" =>
                   /\ mainv.w = EmptyString
                   /\ mainv.stdout =
                         EmitReduceCalls(EmptyString,
                            [k \in 1..Len(mainv.calls) |->
                                ReduceCall(mainv.calls[k].key, mainv.calls[k].values)])

\* A --mapper run is done after two Map calls and the MapFinal call, with
\* the emitted records on stdout.
C27_Witness ==
    /\ mainv # Idle /\ ~mainv.optDoMapReduce /\ mainv.optDoMap /\ ~mainv.optDoReduce
    /\ mainv.pc = "done"
    /\ Len(mainv.calls) = 3
    /\ mainv.calls[3].op = "MapFinal"
    /\ mainv.stdout # EmptyString

\* A line with no TAB before its NEWLINE.
MalformedLine == <<ByteA, NL>>

\* The stream's pieces up to the first one that is no record are records,
\* and that one, the k-th, is the line without TAB.
MalformedLineAt(pieces, k) ==
    /\ k \in 1..Len(pieces)
    /\ \A j \in 1..(k - 1) : pieces[j].isRecord
    /\ ~pieces[k].isRecord
    /\ pieces[k].raw = MalformedLine

\* The number of values in a sequence of Reduce calls.
RECURSIVE CountValues(_)
CountValues(calls) ==
    IF calls = << >> THEN 0 ELSE Len(Head(calls).values) + CountValues(Tail(calls))

\* C28: when the stream's first piece that is no record is a line without
\* TAB, wherever in the stream, reducer has taken the records before that
\* line and nothing else: its Reduce calls hold as many values as there are
\* records before the line, every value is the value of one of them, and
\* every key is the key of one of them (or the empty key of a call without
\* values).
C28_MalformedLineEndsStream ==
    \A k \in 1..Len(red.pieces) :
       (red.pc # "start" /\ MalformedLineAt(red.pieces, k)) =>
          /\ CountValues(red.calls) = k - 1
          /\ \A c \in 1..Len(red.calls) :
                /\ red.calls[c].key \in
                      {red.pieces[j].kv.Key : j \in 1..(k - 1)} \cup {EmptyString}
                /\ \A v \in 1..Len(red.calls[c].values) :
                      red.calls[c].values[v] \in
                         {red.pieces[j].kv.Value : j \in 1..(k - 1)}

\* The reduce workers whose reduce pass is finished and whose output is not
\* yet flushed and closed.
OutputUnflushed(w) ==
    /\ rw[w].partition \in hist.reduced
    /\ rw[w].partition \notin hist.closed

\* C29: while a reduce worker's output for its partition is not yet flushed
\* and closed, the map-side files its sort read and the sorted file the
\* sort made are all still there.
C29_FlushBeforeDelete ==
    \A w \in DOMAIN rw :
       OutputUnflushed(w) =>
          /\ rw[w].fns \subseteq DOMAIN fs
          /\ RedInName(rw[w].partition) \in hist.created =>
                RedInName(rw[w].partition) \in DOMAIN fs

\* C30: the mapped-word counter that MapFinal reports is the number of words
\* the Map calls of the run emitted.
C30_NoLostUpdate ==
    \A k \in 1..Len(stderr) :
       stderr[k].kind = "counter: mapped words" =>
          stderr[k].n = CountWords(IF StdinMode THEN mapper(hist.stdin0)
                                   ELSE InputValuesFrom(0))

====
